---------------------------- MODULE Spec2Model ----------------------------
(***************************************************************************)
(* A model of graphql-import: src/src/index.ts (parseImportLine, parseSDL, *)
(* importSchema, collectDefinitions, filterImportedDefinitions) and        *)
(* src/src/definition.ts (completeDefinitionPool,                          *)
(* collectNewTypeDefinitions).                                             *)
(*                                                                         *)
(* Text.  A JavaScript string is a sequence of atoms.  An atom is one      *)
(* character (" ", ",", "*", "'", "\"", ";", ".", "#") or an abbreviation  *)
(* of a run of letters ("import", "from", "Query", "posts", "b", ...).  No *)
(* letter atom is a concatenation of other atoms, so matching a literal    *)
(* atom by atom is matching it character by character.  An SDL text is a   *)
(* sequence of lines; a line that holds a definition is the one-atom line  *)
(* whose atom is the definition's syntax tree (the SDL parser `parse` of   *)
(* the graphql package is outside this repository).                        *)
(*                                                                         *)
(* Objects.  The code mutates syntax tree nodes that several arrays share  *)
(* (index.ts 160, 348-354), so definitions live in `heap` and the arrays   *)
(* hold references (indexes into heap).                                    *)
(***************************************************************************)
EXTENDS Integers, Sequences, FiniteSets, TLC

VARIABLES
    schema,              \* importSchema's first argument: the root source key
    schemas,             \* importSchema's second argument: key -> SDL text
    phase,               \* where importSchema is: start, collect, merge, close, done, failed
    error,               \* the message of the error thrown (<<>> when none)
    heap,                \* the definition nodes created by parse, in creation order
    allDefinitions,      \* collectDefinitions: per visit, all admissible definitions
    typeDefinitions,     \* collectDefinitions: per visit, the imported definitions
    processedFiles,      \* collectDefinitions: key -> the import lines followed from it
    stack,               \* the active calls of collectDefinitions
    steps,               \* the loop turns and returns collectDefinitions has made
    turns,               \* the turns the loop of completeDefinitionPool has made
    visits,              \* per visit, [key, imports, by]: the call and its caller's key
    admitted,            \* per visit, the definitions filterImportedDefinitions returned,
                         \* as they were when it returned
    reads,               \* the keys handed to read(), in call order
    definitionPool,      \* completeDefinitionPool: the growing pool
    newTypeDefinitions,  \* completeDefinitionPool: the work list
    visitedDefinitions,  \* completeDefinitionPool: names already expanded
    expanded,            \* the references passed to collectNewTypeDefinitions, in order
    seed,                \* the pool as importSchema handed it to completeDefinitionPool
    output,              \* document.definitions on return (references)
    returned,            \* the definitions of the schema an earlier call returned
    written,             \* how an import line was written: names, path, spacing
    line,                \* parseImportLine's argument: the text written
    parsed,              \* parseImportLine's result for `line`
    sdlLines,            \* the lines of parseSDL's argument, as they were written
    scanned              \* parseSDL's result for the text of `sdlLines`

vars == <<schema, schemas, phase, error, heap, allDefinitions, typeDefinitions,
          processedFiles, stack, steps, turns, visits, admitted, reads,
          definitionPool, newTypeDefinitions, visitedDefinitions, expanded,
          seed, output, returned, written, line, parsed, sdlLines, scanned>>

importVars == <<schema, schemas, phase, error, heap, allDefinitions,
                typeDefinitions, processedFiles, stack, steps, turns, visits,
                admitted, reads, definitionPool, newTypeDefinitions,
                visitedDefinitions, expanded, seed, output, returned>>

parseVars == <<written, line, parsed, sdlLines, scanned>>

-----------------------------------------------------------------------------
(* Sequences and strings.                                                  *)

Range(s) == {s[i] : i \in DOMAIN s}

RECURSIVE Flatten(_)
Flatten(ss) == IF ss = <<>> THEN <<>> ELSE Head(ss) \o Flatten(Tail(ss))

\* String.prototype.startsWith
StartsWith(s, p) == Len(s) >= Len(p) /\ SubSeq(s, 1, Len(p)) = p

\* String.prototype.endsWith
EndsWith(s, p) ==
    Len(s) >= Len(p) /\ SubSeq(s, Len(s) - Len(p) + 1, Len(s)) = p

IsSpace(c) == c = " "

\* String.prototype.trim: drops the white space at both ends.
Trim(s) ==
    LET keep == {i \in DOMAIN s : ~IsSpace(s[i])}
    IN  IF keep = {} THEN <<>>
        ELSE SubSeq(s, CHOOSE i \in keep : \A j \in keep : i <= j,
                       CHOOSE i \in keep : \A j \in keep : i >= j)

\* String.prototype.split(sep) for a one-character separator: the pieces
\* between the separators, empty pieces kept.
RECURSIVE SplitFrom(_, _, _)
SplitFrom(s, sep, from) ==
    LET hits == {i \in from..Len(s) : s[i] = sep}
    IN  IF hits = {} THEN <<SubSeq(s, from, Len(s))>>
        ELSE LET i == CHOOSE k \in hits : \A j \in hits : k <= j
             IN  <<SubSeq(s, from, i - 1)>> \o SplitFrom(s, sep, i + 1)

Split(s, sep) == SplitFrom(s, sep, 1)

\* String.prototype.replace(c, '') : removes the first occurrence of c.
RemoveFirst(s, c) ==
    LET hits == {i \in DOMAIN s : s[i] = c}
    IN  IF hits = {} THEN s
        ELSE LET i == CHOOSE k \in hits : \A j \in hits : k <= j
             IN  SubSeq(s, 1, i - 1) \o SubSeq(s, i + 1, Len(s))

\* The value JavaScript calls undefined, where the model needs to name it.
Undefined == <<"undefined">>

\* Property names every plain object ({}, and what lodash keyBy returns)
\* inherits from Object.prototype: obj[name] is a function, a truthy value,
\* for these names whether or not the object was given such a key.
ObjectPrototype ==
    {"constructor", "hasOwnProperty", "isPrototypeOf", "propertyIsEnumerable",
     "toLocaleString", "toString", "valueOf"}


-----------------------------------------------------------------------------
(* index.ts 85-116: the import line parser and the SDL import scanner.     *)

Quotes == {"'", "\""}

Max(S) == CHOOSE x \in S : \A y \in S : y <= x
Min(S) == CHOOSE x \in S : \A y \in S : x <= y

\* /^import (\*|(.*)) from ('|")(.*)('|");?$/ from the end of group 1 (at e)
\* on: ` from `, a quote, group 4, a quote at k, an optional `;`, the end.
TailAt(l, e, k) ==
    /\ e + 4 <= Len(l)
    /\ SubSeq(l, e + 1, e + 3) = <<" ", "from", " ">>
    /\ l[e + 4] \in Quotes
    /\ k > e + 4
    /\ k <= Len(l)
    /\ l[k] \in Quotes
    /\ \/ k = Len(l)
       \/ k = Len(l) - 1 /\ l[Len(l)] = ";"

TailOK(l, e) == \E k \in 1..Len(l) : TailAt(l, e, k)

\* Group 4 is greedy: the closing quote is the last position that matches.
ClosePos(l, e) == Max({k \in 1..Len(l) : TailAt(l, e, k)})

\* Where group 1 ends in the first match in backtracking order: after the
\* `*` of the first alternative when the rest matches from there, else at
\* the last position the greedy `(.*)` can end; 0 when nothing matches.
GroupEnd(l) ==
    IF ~(Len(l) >= 2 /\ l[1] = "import" /\ l[2] = " ") THEN 0
    ELSE IF Len(l) >= 3 /\ l[3] = "*" /\ TailOK(l, 3) THEN 3
    ELSE IF \E e \in 2..Len(l) : TailOK(l, e)
    THEN Max({e \in 2..Len(l) : TailOK(l, e)})
    ELSE 0

\* The groups of the match whose group 1 is l[3..e].  Group 2 is undefined
\* when the first alternative matched, which is when group 1 is `*` (a `*`
\* at 3 with the rest matching from there is the first alternative's match).
Groups(l, e) ==
    IF e = 0
    THEN [matched |-> FALSE, g1 |-> <<>>, g2 |-> Undefined, g4 |-> <<>>]
    ELSE [matched |-> TRUE,
          g1 |-> SubSeq(l, 3, e),
          g2 |-> IF SubSeq(l, 3, e) = <<"*">> THEN Undefined ELSE SubSeq(l, 3, e),
          g4 |-> SubSeq(l, e + 5, ClosePos(l, e) - 1)]

\* importLine.match(...)
RegexMatch(l) == Groups(l, GroupEnd(l))

\* The names as split, their white space left on them.
TrimAllUntrimmed(ss) == ss
\* index.ts 96 and 112: .map(d => d.trim())
TrimAll(ss) == [i \in DOMAIN ss |-> Trim(ss[i])]

\* index.ts 88-100 on the groups: the record {imports, from}, or ok = FALSE
\* for the error thrown.  (matches.length is 6 whenever the pattern matches.)
ImportRecord(matches) ==
    IF ~matches.matched \/ matches.g4 = <<>>
    THEN [ok |-> FALSE, imports |-> <<>>, from |-> <<>>]
    ELSE [ok |-> TRUE,
          imports |-> IF matches.g1 = <<"*">> THEN << <<"*">> >>
                      ELSE TrimAll(Split(matches.g2, ",")),
          from |-> matches.g4]

\* index.ts 85-101
parseImportLine(importLine) == ImportRecord(RegexMatch(importLine))

\* The test for the spelling `# import ` alone.
IsImportLineSpaced(l) == StartsWith(l, <<"#", " ", "import", " ">>)

\* index.ts 113
IsImportLine(l) ==
    \/ StartsWith(l, <<"#", " ", "import", " ">>)
    \/ StartsWith(l, <<"#", "import", " ">>)

\* Array.prototype.filter with the test of index.ts 113.
RECURSIVE ImportLines(_)
ImportLines(ls) ==
    IF ls = <<>> THEN <<>>
    ELSE (IF IsImportLine(Head(ls)) THEN <<Head(ls)>> ELSE <<>>)
         \o ImportLines(Tail(ls))

\* index.ts 114-115
ParseEach(lines) ==
    [i \in DOMAIN lines |-> parseImportLine(Trim(RemoveFirst(lines[i], "#")))]

\* The records of the lines, or ok = FALSE when parseImportLine threw.
Modules(recs) ==
    [ok |-> \A i \in DOMAIN recs : recs[i].ok,
     modules |-> [i \in DOMAIN recs |->
                    [imports |-> recs[i].imports, from |-> recs[i].from]]]

\* index.ts 109-116; the text is already split at the line breaks.
parseSDL(sdl) == Modules(ParseEach(ImportLines(TrimAll(sdl))))

-----------------------------------------------------------------------------
(* The syntax tree nodes of the graphql package that the code reads.       *)
(* Every definition carries every property; HasFields says which kinds     *)
(* have a `fields` property in JavaScript.                                 *)

NamedType(n) == [kind |-> "NamedType", name |-> n]
ListType(t) == [kind |-> "ListType", type |-> t]
NonNullType(t) == [kind |-> "NonNullType", type |-> t]

\* A FieldDefinition (with arguments) or an InputValueDefinition (without).
Field(n, t, args, dirs) ==
    [name |-> n, type |-> t, arguments |-> args, directives |-> dirs]

Def(k, n, fs, is, ts, ds, as) ==
    [kind |-> k, name |-> n, fields |-> fs, interfaces |-> is, types |-> ts,
     directives |-> ds, arguments |-> as]

ObjectType(n, is, fs, ds) == Def("ObjectTypeDefinition", n, fs, is, <<>>, ds, <<>>)
InterfaceType(n, fs, ds) == Def("InterfaceTypeDefinition", n, fs, <<>>, <<>>, ds, <<>>)
InputObjectType(n, fs, ds) == Def("InputObjectTypeDefinition", n, fs, <<>>, <<>>, ds, <<>>)
UnionType(n, ts, ds) == Def("UnionTypeDefinition", n, <<>>, <<>>, ts, ds, <<>>)
ScalarType(n, ds) == Def("ScalarTypeDefinition", n, <<>>, <<>>, <<>>, ds, <<>>)
EnumType(n, ds) == Def("EnumTypeDefinition", n, <<>>, <<>>, <<>>, ds, <<>>)
DirectiveDef(n, as) == Def("DirectiveDefinition", n, <<>>, <<>>, <<>>, <<>>, as)
\* `schema { query: Query }`: a definition of a kind the code drops.
SchemaDef == Def("SchemaDefinition", "schema", <<>>, <<>>, <<>>, <<>>, <<>>)

HasFields(k) ==
    k \in {"ObjectTypeDefinition", "InterfaceTypeDefinition",
           "InputObjectTypeDefinition"}

\* What [].concat(undefined) appends (index.ts 160 with a type without fields).
UndefinedNode == Field("undefined", NamedType("undefined"), <<>>, <<>>)

-----------------------------------------------------------------------------
(* definition.ts.                                                          *)

builtinTypes == {"String", "Float", "Int", "Boolean", "ID"}

builtinDirectives == {"deprecated", "skip", "include"}

RECURSIVE getNamedType(_)
getNamedType(type) ==
    IF type.kind = "NamedType" THEN type ELSE getNamedType(type.type)

\* The error messages, as the pieces the template strings join.
FieldMessage(f, t) ==
    <<"Field ", f, ": Couldn't find type ", t, " in any of the schemas.">>
InterfaceMessage(i) == <<"Couldn't find interface ", i, " in any of the schemas.">>
TypeMessage(t) == <<"Couldn't find type ", t, " in any of the schemas.">>
DirectiveMessage(d) ==
    <<"Directive ", d, ": Couldn't find type ", d, " in any of the schemas.">>
\* A TypeError of the JavaScript runtime (a property of undefined is read).
TypeErrorMessage == <<"TypeError">>
\* The error of parseImportLine (index.ts 89).
ParseMessage == <<"Too few regex matches">>

\* cx: [heap, all, pool], the arguments of collectNewTypeDefinitions
\* (all: allDefinitions, pool: definitionPool, both lists of references).
Context(h, all, pool) == [heap |-> h, all |-> all, pool |-> pool]

\* definitionPool.some(d => d.name.value === name)
InPool(cx, name) == \E i \in DOMAIN cx.pool : cx.heap[cx.pool[i]].name = name

\* keyBy(allDefinitions, d => d.name.value)[name]: the last definition of
\* that name; 0 stands for undefined.  (The sources of the model reference
\* no name of Object.prototype that they do not define.)
schemaMap(cx, name) ==
    IF \E i \in DOMAIN cx.all : cx.heap[cx.all[i]].name = name
    THEN cx.all[Max({i \in DOMAIN cx.all : cx.heap[cx.all[i]].name = name})]
    ELSE 0

\* The running result of one collectNewTypeDefinitions call: the local
\* newTypeDefinitions, or the error thrown.
Collected(defs) == [ok |-> TRUE, defs |-> defs, error |-> <<>>]
Thrown(msg) == [ok |-> FALSE, defs |-> <<>>, error |-> msg]
Push(st, defs) == IF st.ok THEN [st EXCEPT !.defs = @ \o defs] ELSE st

\* `if (!match) throw new Error(msg)` and `newTypeDefinitions.push(match)`
PushMatch(st, match, msg) ==
    IF match = 0 THEN Thrown(msg) ELSE Push(st, <<match>>)

RECURSIVE collectNode(_, _, _)
RECURSIVE collectDirective(_, _, _)
RECURSIVE PushDirective(_, _, _, _)
RECURSIVE EachNode(_, _, _)
RECURSIVE EachDirective(_, _, _)

\* nodes.forEach(collectNode)
EachNode(cx, nodes, st) ==
    IF nodes = <<>> \/ ~st.ok THEN st
    ELSE EachNode(cx, Tail(nodes), collectNode(cx, Head(nodes), st))

\* directives.forEach(collectDirective)
EachDirective(cx, names, st) ==
    IF names = <<>> \/ ~st.ok THEN st
    ELSE EachDirective(cx, Tail(names), collectDirective(cx, Head(names), st))

\* definition.ts 144-159
CollectNodeType(cx, nodeName, nodeTypeName, st) ==
    IF ~InPool(cx, nodeTypeName) /\ nodeTypeName \notin builtinTypes
    THEN PushMatch(st, schemaMap(cx, nodeTypeName),
                   FieldMessage(nodeName, nodeTypeName))
    ELSE st

\* definition.ts 143-162
collectNode(cx, node, st) ==
    IF ~st.ok THEN st
    ELSE IF node = UndefinedNode THEN Thrown(TypeErrorMessage)
    ELSE EachDirective(cx, node.directives,
            CollectNodeType(cx, node.name, getNamedType(node.type).name, st))

\* definition.ts 170-180; directive.arguments is undefined, and forEach on
\* it a TypeError, when the name found is not a directive definition.
PushDirective(cx, directive, directiveName, st) ==
    IF directive = 0 THEN Thrown(DirectiveMessage(directiveName))
    ELSE IF cx.heap[directive].kind # "DirectiveDefinition"
    THEN Thrown(TypeErrorMessage)
    ELSE Push(EachNode(cx, cx.heap[directive].arguments, st), <<directive>>)

\* definition.ts 164-182
collectDirective(cx, directiveName, st) ==
    IF ~st.ok THEN st
    ELSE IF ~InPool(cx, directiveName) /\ directiveName \notin builtinDirectives
    THEN PushDirective(cx, schemaMap(cx, directiveName), directiveName, st)
    ELSE st

\* definition.ts 97-101: the objects of allDefinitions that implement the
\* interface, in the order of allDefinitions.
interfaceImplementations(cx, interfaceName) ==
    SelectSeq(cx.all, LAMBDA d :
        /\ cx.heap[d].kind = "ObjectTypeDefinition"
        /\ \E k \in DOMAIN cx.heap[d].interfaces :
              cx.heap[d].interfaces[k] = interfaceName)

\* definition.ts 106-115 (union member types, TypeMessage) and 120-131
\* (implemented interfaces, InterfaceMessage): names.forEach(...)
RECURSIVE EachNamed(_, _, _, _)
EachNamed(cx, names, isInterface, st) ==
    IF names = <<>> \/ ~st.ok THEN st
    ELSE EachNamed(cx, Tail(names), isInterface,
            IF InPool(cx, Head(names)) THEN st
            ELSE PushMatch(st, schemaMap(cx, Head(names)),
                    IF isInterface THEN InterfaceMessage(Head(names))
                    ELSE TypeMessage(Head(names))))

\* definition.ts 134-138: fields.forEach(field => { collectNode(field);
\* field.arguments.forEach(collectNode) })
RECURSIVE EachFieldWithArguments(_, _, _)
EachFieldWithArguments(cx, fields, st) ==
    IF fields = <<>> \/ ~st.ok THEN st
    ELSE EachFieldWithArguments(cx, Tail(fields),
            EachNode(cx, Head(fields).arguments,
                     collectNode(cx, Head(fields), st)))

\* definition.ts 85-87
OnDirectives(cx, d, st) ==
    IF d.kind # "DirectiveDefinition" THEN EachDirective(cx, d.directives, st)
    ELSE st

\* definition.ts 89-91
OnInputObject(cx, d, st) ==
    IF d.kind = "InputObjectTypeDefinition" THEN EachNode(cx, d.fields, st)
    ELSE st

\* definition.ts 93-103
OnInterface(cx, d, st) ==
    IF d.kind = "InterfaceTypeDefinition"
    THEN Push(EachNode(cx, d.fields, st), interfaceImplementations(cx, d.name))
    ELSE st

\* definition.ts 105-116
OnUnion(cx, d, st) ==
    IF d.kind = "UnionTypeDefinition" THEN EachNamed(cx, d.types, FALSE, st)
    ELSE st

\* definition.ts 118-139
OnObject(cx, d, st) ==
    IF d.kind = "ObjectTypeDefinition"
    THEN EachFieldWithArguments(cx, d.fields,
             EachNamed(cx, d.interfaces, TRUE, st))
    ELSE st

\* definition.ts 77-141, newDefinition being the node d.
Expand(cx, d) ==
    OnObject(cx, d,
      OnUnion(cx, d,
        OnInterface(cx, d,
          OnInputObject(cx, d,
            OnDirectives(cx, d, Collected(<<>>))))))

collectNewTypeDefinitions(cx, newDefinition) == Expand(cx, cx.heap[newDefinition])

\* The pool as it is, repeated names and all.
uniqByKeepingAll(h, pool) == pool
\* uniqBy(definitionPool, 'name.value'): the first definition of each name.
uniqBy(h, pool) ==
    LET firsts == {i \in DOMAIN pool :
                     \A j \in 1..(i - 1) : h[pool[j]].name # h[pool[i]].name}
        F[i \in 0..Len(pool)] ==
            IF i = 0 THEN <<>>
            ELSE IF i \in firsts THEN Append(F[i - 1], pool[i]) ELSE F[i - 1]
    IN  F[Len(pool)]

-----------------------------------------------------------------------------
(* The world outside: the SDL parser and the file system.                  *)

\* The definitions the sources are written with: the text of a definition
\* (one atom) and the syntax tree `parse` builds from it.
String == NamedType("String")
IDNonNull == NonNullType(NamedType("ID"))

AST ==
  [t \in {} |-> SchemaDef]
  @@ ("schema { query: Query }" :> SchemaDef)
  @@ ("type Query { helloA: String }" :>
        ObjectType("Query", <<>>, <<Field("helloA", String, <<>>, <<>>)>>, <<>>))
  @@ ("type Query { posts: [B] hello: String }" :>
        ObjectType("Query", <<>>,
          <<Field("posts", ListType(NamedType("B")), <<>>, <<>>),
            Field("hello", String, <<>>, <<>>)>>, <<>>))
  @@ ("type A { first: String b: B }" :>
        ObjectType("A", <<>>,
          <<Field("first", String, <<>>, <<>>),
            Field("b", NamedType("B"), <<>>, <<>>)>>, <<>>))
  @@ ("type A { first: String }" :>
        ObjectType("A", <<>>, <<Field("first", String, <<>>, <<>>)>>, <<>>))
  @@ ("type A implements I { id: ID! }" :>
        ObjectType("A", <<"I">>, <<Field("id", IDNonNull, <<>>, <<>>)>>, <<>>))
  @@ ("type A { first: String @d }" :>
        ObjectType("A", <<>>, <<Field("first", String, <<>>, <<"d">>)>>, <<>>))
  @@ ("type A { post: X }" :>
        ObjectType("A", <<>>, <<Field("post", NamedType("X"), <<>>, <<>>)>>, <<>>))
  @@ ("type A { f(arg: X): String }" :>
        ObjectType("A", <<>>,
          <<Field("f", String, <<Field("arg", NamedType("X"), <<>>, <<>>)>>,
                  <<>>)>>, <<>>))
  @@ ("type A implements X { id: ID! }" :>
        ObjectType("A", <<"X">>, <<Field("id", IDNonNull, <<>>, <<>>)>>, <<>>))
  @@ ("type A { first: String @x }" :>
        ObjectType("A", <<>>, <<Field("first", String, <<>>, <<"x">>)>>, <<>>))
  @@ ("union A = C | X" :> UnionType("A", <<"C", "X">>, <<>>))
  @@ ("interface I { f(arg: In): String }" :>
        InterfaceType("I",
          <<Field("f", String, <<Field("arg", NamedType("In"), <<>>, <<>>)>>,
                  <<>>)>>, <<>>))
  @@ ("interface I { id: ID! }" :>
        InterfaceType("I", <<Field("id", IDNonNull, <<>>, <<>>)>>, <<>>))
  @@ ("directive @d(arg: In) on FIELD_DEFINITION" :>
        DirectiveDef("d", <<Field("arg", NamedType("In"), <<>>, <<>>)>>))
  @@ ("type B { c: C hello: String! }" :>
        ObjectType("B", <<>>,
          <<Field("c", NamedType("C"), <<>>, <<>>),
            Field("hello", NonNullType(String), <<>>, <<>>)>>, <<>>))
  @@ ("type B { hello: String! a: A }" :>
        ObjectType("B", <<>>,
          <<Field("hello", NonNullType(String), <<>>, <<>>),
            Field("a", NamedType("A"), <<>>, <<>>)>>, <<>>))
  @@ ("type B { q: Query }" :>
        ObjectType("B", <<>>, <<Field("q", NamedType("Query"), <<>>, <<>>)>>, <<>>))
  @@ ("union B = C | In" :> UnionType("B", <<"C", "In">>, <<>>))
  @@ ("type B1 implements I { id: ID! }" :>
        ObjectType("B1", <<"I">>, <<Field("id", IDNonNull, <<>>, <<>>)>>, <<>>))
  @@ ("type C { id: ID! }" :>
        ObjectType("C", <<>>, <<Field("id", IDNonNull, <<>>, <<>>)>>, <<>>))
  @@ ("type B { z: Z }" :>
        ObjectType("B", <<>>, <<Field("z", NamedType("Z"), <<>>, <<>>)>>, <<>>))
  @@ ("type Z { id: ID! }" :>
        ObjectType("Z", <<>>, <<Field("id", IDNonNull, <<>>, <<>>)>>, <<>>))
  @@ ("input In { x: String }" :>
        InputObjectType("In", <<Field("x", String, <<>>, <<>>)>>, <<>>))
  @@ ("enum In { X Y }" :> EnumType("In", <<>>))
  @@ ("type A { i: I }" :>
        ObjectType("A", <<>>, <<Field("i", NamedType("I"), <<>>, <<>>)>>, <<>>))
  @@ ("type I { id: ID! }" :>
        ObjectType("I", <<>>, <<Field("id", IDNonNull, <<>>, <<>>)>>, <<>>))
  @@ ("type C implements I { id: ID! }" :>
        ObjectType("C", <<"I">>, <<Field("id", IDNonNull, <<>>, <<>>)>>, <<>>))
  @@ ("interface I { f(arg: String @x): String }" :>
        InterfaceType("I",
          <<Field("f", String, <<Field("arg", String, <<>>, <<"x">>)>>,
                  <<>>)>>, <<>>))
  @@ ("interface I { post: X }" :>
        InterfaceType("I", <<Field("post", NamedType("X"), <<>>, <<>>)>>, <<>>))
  @@ ("input In { post: X }" :>
        InputObjectType("In", <<Field("post", NamedType("X"), <<>>, <<>>)>>, <<>>))
  @@ ("scalar C" :> ScalarType("C", <<>>))
  @@ ("type constructor { id: ID! }" :>
        ObjectType("constructor", <<>>, <<Field("id", IDNonNull, <<>>, <<>>)>>, <<>>))
  @@ ("type Unrelated { y: Int }" :>
        ObjectType("Unrelated", <<>>,
          <<Field("y", NamedType("Int"), <<>>, <<>>)>>, <<>>))

\* The working directory of the process, and the files on disk (absolute
\* path -> text).  A text is the sequence of its lines (String.split('\n')
\* of it): the zero-length text is the one empty line.
Cwd == <<"/", "cwd">>

FileSystem ==
  [f \in {} |-> << <<>> >>]
  @@ (<<"/", "cwd", "/", "c", ".graphql">> :>
        << <<"#", " ", "import", " ", "B", " ", "from", " ", "\"", "b", "\"">>,
           <<"type C { id: ID! }">> >>)
  @@ (<<"/", "cwd", "/", "a", ".graphql">> :>
        << <<"#", " ", "import", " ", "C", " ", "from", " ", "\"", "c",
             ".graphql", "\"">>,
           <<"type A { first: String }">> >>)

\* path.resolve(p), path.dirname(p), path.join(dir, p) on paths without
\* `.` and `..` segments.
pathResolve(p) == IF p # <<>> /\ Head(p) = "/" THEN p ELSE Cwd \o <<"/">> \o p

dirname(p) ==
    LET slashes == {i \in DOMAIN p : p[i] = "/"}
    IN  IF slashes = {} THEN <<".">>
        ELSE LET last == CHOOSE i \in slashes : \A j \in slashes : j <= i
             IN  IF last = 1 THEN <<"/">> ELSE SubSeq(p, 1, last - 1)

pathJoin(dir, p) == IF dir = <<".">> THEN p ELSE dir \o <<"/">> \o p

-----------------------------------------------------------------------------
(* index.ts 68-77, 183-230: reading and resolving sources.                 *)

rootFields == {"Query", "Mutation", "Subscription"}

\* index.ts 77
isFile(f) == EndsWith(f, <<".graphql">>)

\* A value or the error thrown in place of it.
Value(v) == [ok |-> TRUE, defined |-> TRUE, value |-> v, error |-> <<>>]
Throw(msg) == [ok |-> FALSE, defined |-> FALSE, value |-> <<>>, error |-> msg]
\* The value undefined, returned.
NoValue == [ok |-> TRUE, defined |-> FALSE, value |-> <<>>, error |-> <<>>]

\* index.ts 70-75.  `schemas` is always supplied here.
read(s, ss) ==
    IF isFile(s)
    THEN IF pathResolve(s) \in DOMAIN FileSystem
         THEN Value(FileSystem[pathResolve(s)])
         ELSE Throw(<<"ENOENT">>)
    ELSE IF s \in DOMAIN ss THEN Value(ss[s]) ELSE NoValue

\* index.ts 217-230.  fs.realpathSync gives the absolute path of a file
\* that exists; resolveFrom (the package lookup) finds no package here.
resolveModuleFilePath(filePath, importFrom) ==
    IF isFile(filePath) /\ isFile(importFrom)
    THEN LET real == pathResolve(pathJoin(dirname(filePath), importFrom))
         IN  IF real \in DOMAIN FileSystem THEN Value(real)
             ELSE Throw(<<"Cannot find module">>)
    ELSE Value(importFrom)

\* index.ts 200-207
isEmptySDL(sdl) ==
    \A i \in DOMAIN sdl :
        LET l == Trim(sdl[i]) IN Len(l) = 0 \/ StartsWith(l, <<"#">>)

\* graphql's parse: the definitions of the text, in order (comments and
\* blank lines skipped), or a syntax error.
RECURSIVE parseDefinitions(_)
parseDefinitions(sdl) ==
    IF sdl = <<>> THEN <<>>
    ELSE LET l == Trim(Head(sdl))
         IN  (IF Len(l) = 0 \/ StartsWith(l, <<"#">>) THEN <<>> ELSE <<AST[l[1]]>>)
             \o parseDefinitions(Tail(sdl))

SyntaxOK(sdl) ==
    \A i \in DOMAIN sdl :
        LET l == Trim(sdl[i])
        IN  Len(l) = 0 \/ StartsWith(l, <<"#">>)
            \/ (Len(l) = 1 /\ l[1] \in DOMAIN AST)

\* index.ts 183-192: document.definitions, or the error thrown (the
\* parser's syntax error).
getDocumentFromSDL(sdl) ==
    IF isEmptySDL(sdl) THEN Value(<<>>)
    ELSE IF SyntaxOK(sdl) THEN Value(parseDefinitions(sdl))
    ELSE Throw(<<"Syntax Error">>)

-----------------------------------------------------------------------------
(* index.ts 311-382: the filters.  h is the heap, lists hold references.   *)

validKinds ==
    {"DirectiveDefinition", "ScalarTypeDefinition", "ObjectTypeDefinition",
     "InterfaceTypeDefinition", "EnumTypeDefinition", "UnionTypeDefinition",
     "InputObjectTypeDefinition"}

\* index.ts 367-382
filterTypeDefinitions(h, definitions) ==
    SelectSeq(definitions, LAMBDA d : h[d].kind \in validKinds)

\* A definition name (one atom) as the string an import names it by.
NameString(n) == <<n>>

\* i.split('.')[0] and i.split('.')[1] of an import
ImportHead(i) == Split(i, ".")[1]
ImportField(i) == Split(i, ".")[2]

\* index.ts 343: imports.filter(i => i.split('.').length > 1), as a set
fieldImports(imports) ==
    {imports[k] : k \in {j \in DOMAIN imports : Len(Split(imports[j], ".")) > 1}}

\* index.ts 344: the keys of groupBy(fieldImports, x => x.split('.')[0])
fieldImportGroups(imports) == {ImportHead(i) : i \in fieldImports(imports)}

\* index.ts 348-350: filteredDefinitions.find(def => def.name.value === rootType),
\* 0 for undefined.
FindByName(h, definitions, rootType) ==
    IF \E k \in DOMAIN definitions : NameString(h[definitions[k]].name) = rootType
    THEN definitions[Min({k \in DOMAIN definitions :
                            NameString(h[definitions[k]].name) = rootType})]
    ELSE 0

\* index.ts 347: groupedFieldImports[rootType].map(x => x.split('.')[1])
groupFields(imports, rootType) ==
    {ImportField(i) : i \in {x \in fieldImports(imports) : ImportHead(x) = rootType}}

\* Every field stays.
keptFieldsAll(names, fields) == fields
\* index.ts 352-354: the fields that stay.
keptFields(names, fields) ==
    SelectSeq(fields, LAMBDA f : NameString(f.name) \in names \/ <<"*">> \in names)

\* What filterImportedDefinitions returns: the definitions admitted and the
\* heap after its assignments to `fields`, or ok = FALSE for a TypeError.
Filtered(result, h) == [ok |-> TRUE, result |-> result, heap |-> h]
FilterThrown(h) == [ok |-> FALSE, result |-> <<>>, heap |-> h]

\* index.ts 326-336: the wildcard import of a source that is not the first.
\* previousTypeDefinitions[name] is truthy for the name of a previous
\* definition that is no root type, and for a name of Object.prototype.
filterByPrevious(typeDefs, previous, h) ==
    Filtered(SelectSeq(typeDefs, LAMBDA d :
                 /\ h[d].kind = "ObjectTypeDefinition"
                 /\ \/ /\ h[d].name \notin rootFields
                       /\ \E k \in DOMAIN previous :
                             h[previous[k]].name = h[d].name
                    \/ h[d].name \in ObjectPrototype),
             h)

\* index.ts 346-355: the loop over the groups of field imports.  The find
\* of 348 returns undefined (and reading its `fields` throws) when the
\* source has no definition of the group's name; `fields` is undefined (and
\* calling filter on it throws) when the definition found has no fields.
filterFields(imports, filteredDefinitions, h) ==
    IF \E g \in fieldImportGroups(imports) :
          \/ FindByName(h, filteredDefinitions, g) = 0
          \/ ~HasFields(h[FindByName(h, filteredDefinitions, g)].kind)
    THEN FilterThrown(h)
    ELSE Filtered(<<>>,
           [d \in DOMAIN h |->
              IF \E g \in fieldImportGroups(imports) :
                    FindByName(h, filteredDefinitions, g) = d
              THEN [h[d] EXCEPT !.fields =
                      keptFields(groupFields(imports, NameString(h[d].name)), @)]
              ELSE h[d]])

\* index.ts 340-357
filterByNames(imports, filteredDefinitions, h, fields) ==
    IF ~fields.ok THEN fields
    ELSE Filtered(SelectSeq(filteredDefinitions, LAMBDA d :
                     \E k \in DOMAIN imports :
                        ImportHead(imports[k]) = NameString(h[d].name)),
                  fields.heap)

\* index.ts 311-359
filterImportedDefinitions(imports, typeDefs, allDefs, h) ==
    IF \E k \in DOMAIN imports : imports[k] = <<"*">>
    THEN IF Len(imports) = 1 /\ imports[1] = <<"*">> /\ Len(allDefs) > 1
         THEN filterByPrevious(typeDefs,
                  Flatten(SubSeq(allDefs, 1, Len(allDefs) - 1)), h)
         ELSE Filtered(filterTypeDefinitions(h, typeDefs), h)
    ELSE filterByNames(imports, filterTypeDefinitions(h, typeDefs), h,
             filterFields(imports, filterTypeDefinitions(h, typeDefs), h))

-----------------------------------------------------------------------------
(* index.ts 245-301: collectDefinitions.                                   *)

\* What the part of a call before its loop leaves (index.ts 257-276): the
\* accumulators and the import lines of the source, or the error thrown.
Entered(h, allDefs, typeDefs, rawModules) ==
    [ok |-> TRUE, error |-> <<>>, heap |-> h, allDefinitions |-> allDefs,
     typeDefinitions |-> typeDefs, rawModules |-> rawModules]
EnterThrown(msg) ==
    [ok |-> FALSE, error |-> msg, heap |-> <<>>, allDefinitions |-> <<>>,
     typeDefinitions |-> <<>>, rawModules |-> <<>>]

\* index.ts 273-276
enterParsed(allDefs, typeDefs, current, rawModules) ==
    IF ~current.ok THEN EnterThrown(TypeErrorMessage)
    ELSE IF ~rawModules.ok THEN EnterThrown(ParseMessage)
    ELSE Entered(current.heap, allDefs,
                 Append(typeDefs, current.result), rawModules.modules)

\* index.ts 266-276
enterFiltered(imports, text, h, refs, allDefs, typeDefs) ==
    enterParsed(allDefs, typeDefs,
                filterImportedDefinitions(imports, refs, allDefs, h),
                parseSDL(text))

\* The references of n nodes created after `used` others.
NewRefs(used, n) == [k \in 1..n |-> used + k]

\* index.ts 260-263
enterDocument(imports, text, document, h, allDefs, typeDefs) ==
    IF ~document.ok THEN EnterThrown(document.error)
    ELSE enterFiltered(imports, text, h \o document.value,
             NewRefs(Len(h), Len(document.value)),
             Append(allDefs,
                 filterTypeDefinitions(h \o document.value,
                     NewRefs(Len(h), Len(document.value)))),
             typeDefs)

\* index.ts 257-276; sdl is what read() returned (undefined.split throws).
enterSource(imports, sdl, h, allDefs, typeDefs) ==
    IF ~sdl.ok THEN EnterThrown(sdl.error)
    ELSE IF ~sdl.defined THEN EnterThrown(TypeErrorMessage)
    ELSE enterDocument(imports, sdl.value, getDocumentFromSDL(sdl.value),
                       h, allDefs, typeDefs)

\* index.ts 257
keyOf(filePath) == IF isFile(filePath) THEN pathResolve(filePath) ELSE filePath

\* processedFiles.get(key), <<>> for undefined
processedFile(pf, key) == IF key \in DOMAIN pf THEN pf[key] ELSE <<>>

\* No import line counts as followed before.
alreadyProcessedNever(pf, key, m) == FALSE
\* An import line counts as followed when one from the same target was.
alreadyProcessedSameTarget(pf, key, m) ==
    \E k \in DOMAIN processedFile(pf, key) :
        processedFile(pf, key)[k].from = m.from
\* index.ts 284
alreadyProcessed(pf, key, m) ==
    \E k \in DOMAIN processedFile(pf, key) : processedFile(pf, key)[k] = m

\* index.ts 286
markProcessed(pf, key, m) ==
    [k \in DOMAIN pf \cup {key} |->
        IF k = key THEN Append(processedFile(pf, key), m) ELSE pf[k]]

\* The most loop turns and returns of collectDefinitions that are followed.
MaxSteps == 40

\* One activation of collectDefinitions: its file, its import lines and the
\* position of its forEach.
Frame(filePath, rawModules) ==
    [filePath |-> filePath, key |-> keyOf(filePath), rawModules |-> rawModules,
     next |-> 1]

-----------------------------------------------------------------------------
(* index.ts 143-164: the seed and the merge of same-named definitions.     *)

\* The seed with the root file's other definitions before the root types.
firstSetOfOthersFirst(h, typeDefs) ==
    SelectSeq(typeDefs[1], LAMBDA d : h[d].name \notin rootFields)
    \o SelectSeq(Flatten(typeDefs), LAMBDA d : h[d].name \in rootFields)

\* index.ts 143-149
firstSetOf(h, typeDefs) ==
    SelectSeq(Flatten(typeDefs), LAMBDA d : h[d].name \in rootFields)
    \o SelectSeq(typeDefs[1], LAMBDA d : h[d].name \notin rootFields)

\* The heap left as it was: nothing joins existingType.
mergeIntoNothing(h, existingType, type) == h
\* index.ts 157-162: type joins existingType.
mergeInto(h, existingType, type) ==
    [h EXCEPT ![existingType].fields =
        @ \o (IF HasFields(h[type].kind) THEN h[type].fields
              ELSE <<UndefinedNode>>)]

\* index.ts 152-164 from position i on: the heap after the assignments to
\* existingType.fields, or ok = FALSE for the TypeError of calling concat
\* on undefined.
RECURSIVE mergeFirstTypes(_, _, _)
mergeFirstTypes(h, firstSet, i) ==
    IF i > Len(firstSet) THEN [ok |-> TRUE, heap |-> h]
    ELSE IF \A j \in 1..(i - 1) : h[firstSet[j]].name # h[firstSet[i]].name
    THEN mergeFirstTypes(h, firstSet, i + 1)
    ELSE IF ~HasFields(h[FindByName(h, firstSet, NameString(h[firstSet[i]].name))].kind)
    THEN [ok |-> FALSE, heap |-> h]
    ELSE mergeFirstTypes(
             mergeInto(h, FindByName(h, firstSet, NameString(h[firstSet[i]].name)),
                       firstSet[i]),
             firstSet, i + 1)

-----------------------------------------------------------------------------
(* The sources importSchema is run on.                                     *)

\* names.join(', ')
RECURSIVE JoinNames(_)
JoinNames(names) ==
    IF Len(names) = 0 THEN <<>>
    ELSE IF Len(names) = 1 THEN names[1]
    ELSE names[1] \o <<",", " ">> \o JoinNames(Tail(names))

\* The comment line `# import <names> from "<from>"`.
ImportLine(names, from) ==
    <<"#", " ", "import", " ">> \o JoinNames(names)
        \o <<" ", "from", " ", "\"">> \o from \o <<"\"">>

\* A text: its import lines, then one line per definition.
Source(importLines, definitions) ==
    importLines \o [k \in DOMAIN definitions |-> <<definitions[k]>>]

\* The sequences over S of length at most n.
RECURSIVE SeqsUpTo(_, _)
SeqsUpTo(S, n) ==
    IF n = 0 THEN {<<>>}
    ELSE LET shorter == SeqsUpTo(S, n - 1)
         IN  shorter \cup {Append(q, x) : q \in shorter, x \in S}

\* The most import lines the root source has.
MaxImports == 2

RootLines ==
    {ImportLine(<< <<"B">> >>, <<"b">>),
     ImportLine(<< <<"*">> >>, <<"b">>),
     ImportLine(<< <<"Query", ".", "posts">> >>, <<"b">>),
     ImportLine(<< <<"Query", ".", "hello">> >>, <<"c">>),
     ImportLine(<< <<"Query", ".", "*">> >>, <<"c">>),
     ImportLine(<< <<"B">> >>, <<"c">>)}

RootDefinitions ==
    {<<"type Query { helloA: String }", "type A { first: String b: B }">>,
     <<"type A { first: String b: B }">>,
     <<"type A { first: String }">>}

BImports ==
    {<<>>,
     <<ImportLine(<< <<"C">> >>, <<"c">>)>>,
     <<ImportLine(<< <<"A">> >>, <<"a">>)>>,
     <<ImportLine(<< <<"*">> >>, <<"c">>)>>}

BDefinitions ==
    {<<"type Query { posts: [B] hello: String }", "type B { c: C hello: String! }",
       "type Unrelated { y: Int }">>,
     <<"type B { hello: String! a: A }">>}

CImports ==
    {<<>>,
     <<ImportLine(<< <<"A">> >>, <<"a">>)>>,
     <<ImportLine(<< <<"C">> >>, <<"c">>)>>}

CDefinitions ==
    {<<"type C { id: ID! }", "type Query { posts: [B] hello: String }">>,
     <<"type B { z: Z }", "type Z { id: ID! }", "type C { id: ID! }">>}

Schemas(a, b, c) == (<<"a">> :> a) @@ (<<"b">> :> b) @@ (<<"c">> :> c)

GraphScenarios ==
    {Schemas(Source(ai, ad), Source(bi, bd), Source(ci, cd)) :
        ai \in SeqsUpTo(RootLines, MaxImports), ad \in RootDefinitions,
        bi \in BImports, bd \in BDefinitions,
        ci \in CImports, cd \in CDefinitions}

\* Sources whose definitions exercise each kind of reference the closure
\* engine follows, resolvable or not.
ReferenceRootImports ==
    {<<>>,
     <<ImportLine(<< <<"In">> >>, <<"b">>)>>,
     <<ImportLine(<< <<"I">> >>, <<"b">>)>>,
     <<ImportLine(<< <<"B">> >>, <<"b">>)>>,
     <<ImportLine(<< <<"*">> >>, <<"b">>)>>,
     <<ImportLine(<< <<"Query">> >>, <<"b">>)>>}

ReferenceRootDefinitions ==
    {<<"interface I { f(arg: In): String }">>,
     <<"directive @d(arg: In) on FIELD_DEFINITION", "type A { first: String @d }">>,
     <<"type A implements I { id: ID! }">>,
     <<"type A { i: I }">>,
     <<"type A { post: X }">>,
     <<"type A { f(arg: X): String }">>,
     <<"type A implements X { id: ID! }">>,
     <<"union A = C | X">>,
     <<"type A { first: String @x }">>,
     <<"interface I { f(arg: String @x): String }">>,
     <<"interface I { post: X }">>,
     <<"input In { post: X }">>,
     <<"type A { first: String b: B }">>,
     <<"type A { first: String b: B }", "type Query { helloA: String }">>}

ReferenceB ==
    {Source(<<>>, <<"input In { x: String }", "interface I { id: ID! }",
                    "type B1 implements I { id: ID! }",
                    "type B { hello: String! a: A }">>),
     Source(<<ImportLine(<< <<"C">> >>, <<"c">>)>>,
            <<"type I { id: ID! }", "input In { x: String }">>),
     Source(<<>>, <<"type Query { posts: [B] hello: String }",
                    "type B { q: Query }">>),
     Source(<<ImportLine(<< <<"*">> >>, <<"a">>)>>,
            <<"interface I { id: ID! }", "type A { first: String }",
              "type Query { posts: [B] hello: String }",
              "type constructor { id: ID! }", "type Z { id: ID! }">>),
     Source(<<ImportLine(<< <<"Query">> >>, <<"a">>)>>,
            <<"type B { hello: String! a: A }">>)}

ReferenceC ==
    {Source(<<>>, <<"interface I { id: ID! }", "type C implements I { id: ID! }">>),
     Source(<<>>, <<"type C { id: ID! }">>)}

ReferenceScenarios ==
    {Schemas(Source(ai, ad), b, c) :
        ai \in ReferenceRootImports, ad \in ReferenceRootDefinitions,
        b \in ReferenceB, c \in ReferenceC}

\* Sources in memory that import from files on disk, which import from
\* each other and from the sources in memory (index.test.ts 195-241).
FileRootLines ==
    {ImportLine(<< <<"C">> >>, <<"c", ".graphql">>),
     ImportLine(<< <<"A">> >>, <<"a", ".graphql">>),
     ImportLine(<< <<"Z">> >>, <<"z", ".graphql">>),
     ImportLine(<< <<"B">> >>, <<"b">>)}

FileB ==
    {Source(<<>>, <<"type B { hello: String! a: A }">>),
     Source(<<ImportLine(<< <<"C">> >>, <<"c", ".graphql">>)>>,
            <<"type B { c: C hello: String! }">>)}

FileScenarios ==
    {(<<"a">> :> Source(ai, <<"type A { first: String }">>)) @@ (<<"b">> :> b) :
        ai \in SeqsUpTo(FileRootLines, MaxImports), b \in FileB}

\* Sources whose text has no definition: the zero-length text, blank
\* lines, comment lines, import lines; and sources that import from them.
CommentLine == <<"#", " ", "test", " ", "1">>

EmptyRoot ==
    {<< <<>> >>,
     << <<" ", " ">>, CommentLine >>,
     <<CommentLine, ImportLine(<< <<"B">> >>, <<"b">>)>>,
     <<ImportLine(<< <<"*">> >>, <<"b">>), <<>> >>,
     Source(<<ImportLine(<< <<"B">> >>, <<"b">>)>>, <<"type A { first: String }">>),
     Source(<<ImportLine(<< <<"Query", ".", "posts">> >>, <<"b">>)>>,
            <<"type A { first: String }">>),
     Source(<<ImportLine(<< <<"Query">> >>, <<"c">>)>>,
            <<"type A { first: String }">>),
     Source(<<ImportLine(<< <<"Query", ".", "helloA">> >>, <<"c">>),
              ImportLine(<< <<"Query", ".", "*">> >>, <<"c">>)>>,
            <<"type A { first: String }">>)}

EmptyB ==
    {<< <<>> >>,
     <<CommentLine, <<" ">>, ImportLine(<< <<"C">> >>, <<"c">>)>>,
     <<ImportLine(<< <<"*">> >>, <<"c">>), ImportLine(<< <<"A">> >>, <<"a">>)>>,
     Source(<<>>, <<"type B { hello: String! a: A }">>)}

EmptyScenarios ==
    {Schemas(a, b, Source(<<>>, <<"type C { id: ID! }",
                                  "type Query { helloA: String }">>)) :
        a \in EmptyRoot, b \in EmptyB}

Scenarios ==
    GraphScenarios \cup ReferenceScenarios \cup FileScenarios
        \cup EmptyScenarios

-----------------------------------------------------------------------------
(* The state machine of one importSchema call.                             *)

Fail(msg) ==
    /\ phase' = "failed"
    /\ error' = msg
    /\ UNCHANGED <<schema, heap, allDefinitions, typeDefinitions,
                   processedFiles, stack, visits, admitted, reads, definitionPool,
                   newTypeDefinitions, visitedDefinitions, expanded, seed,
                   output>>

\* The nodes the references point to.
Snapshot(h, refs) == [k \in DOMAIN refs |-> h[refs[k]]]

\* A call of collectDefinitions got to its loop (index.ts 257-276), or
\* threw: e is what enterSource returned for the call.
Enter(e, filePath, imports, by, callers, pf) ==
    IF ~e.ok THEN Fail(e.error)
    ELSE /\ phase' = "collect"
         /\ heap' = e.heap
         /\ allDefinitions' = e.allDefinitions
         /\ typeDefinitions' = e.typeDefinitions
         /\ stack' = Append(callers, Frame(filePath, e.rawModules))
         /\ visits' = Append(visits,
                [key |-> keyOf(filePath), imports |-> imports, by |-> by])
         /\ admitted' = Append(admitted,
                Snapshot(e.heap, e.typeDefinitions[Len(e.typeDefinitions)]))
         /\ reads' = Append(reads, filePath)
         /\ processedFiles' = pf
         /\ UNCHANGED <<schema, error, definitionPool,
                        newTypeDefinitions, visitedDefinitions, expanded,
                        seed, output>>

\* read(schema, schemas) || schema
rootSDL(r, s) ==
    IF r.ok /\ (~r.defined \/ r.value = << <<>> >>) THEN Value(<<s>>) ELSE r

\* index.ts 128-137: importSchema is called with the sources ss, and runs
\* up to the loop of the root call of collectDefinitions.
Start ==
    /\ phase = "start"
    /\ \E ss \in Scenarios :
          /\ schemas' = ss
          /\ Enter(enterSource(<< <<"*">> >>, rootSDL(read(schema, ss), schema),
                               heap, allDefinitions, typeDefinitions),
                   schema, << <<"*">> >>, <<>>, <<>>, processedFiles)
    /\ UNCHANGED steps
    /\ UNCHANGED <<turns, returned, parseVars>>

\* index.ts 281-296 for the import line m of the call `top`, the target
\* resolved to moduleFilePath.
Follow(top, m, moduleFilePath, stepped) ==
    IF ~moduleFilePath.ok THEN Fail(moduleFilePath.error)
    ELSE IF alreadyProcessed(processedFiles, top.key, m)
    THEN /\ stack' = stepped
         /\ UNCHANGED <<schema, phase, error, heap, allDefinitions,
                        typeDefinitions, processedFiles, visits, admitted, reads,
                        definitionPool, newTypeDefinitions,
                        visitedDefinitions, expanded, seed, output>>
    ELSE Enter(enterSource(m.imports, read(moduleFilePath.value, schemas),
                           heap, allDefinitions, typeDefinitions),
               moduleFilePath.value, m.imports, top.key, stepped,
               markProcessed(processedFiles, top.key, m))

\* index.ts 279-297: one turn of rawModules.forEach in the innermost active
\* call; when the line is new, the call of collectDefinitions it makes, up
\* to that call's own loop.
FollowImport ==
    /\ phase = "collect"
    /\ stack # <<>>
    /\ stack[Len(stack)].next <= Len(stack[Len(stack)].rawModules)
    /\ steps < MaxSteps
    /\ steps' = steps + 1
    /\ Follow(stack[Len(stack)],
              stack[Len(stack)].rawModules[stack[Len(stack)].next],
              resolveModuleFilePath(stack[Len(stack)].filePath,
                  stack[Len(stack)].rawModules[stack[Len(stack)].next].from),
              [stack EXCEPT ![Len(stack)].next = @ + 1])
    /\ UNCHANGED schemas
    /\ UNCHANGED <<turns, returned, parseVars>>

\* index.ts 297-300: the forEach of the innermost active call is over and
\* the call returns; the root call returns to importSchema.
Return ==
    /\ phase = "collect"
    /\ stack # <<>>
    /\ stack[Len(stack)].next > Len(stack[Len(stack)].rawModules)
    /\ steps < MaxSteps
    /\ steps' = steps + 1
    /\ stack' = SubSeq(stack, 1, Len(stack) - 1)
    /\ phase' = IF Len(stack) = 1 THEN "merge" ELSE "collect"
    /\ UNCHANGED <<schema, schemas, error, heap, allDefinitions,
                   typeDefinitions, processedFiles, visits, admitted, reads,
                   definitionPool, newTypeDefinitions, visitedDefinitions,
                   expanded, seed, output>>
    /\ UNCHANGED <<turns, returned, parseVars>>

\* index.ts 149-170 with the seed firstSet, merged being what the loop of
\* 152-164 left.
Merge(firstSet, merged) ==
    IF ~merged.ok THEN Fail(TypeErrorMessage)
    ELSE /\ heap' = merged.heap
         /\ definitionPool' = firstSet
         /\ seed' = firstSet
         /\ newTypeDefinitions' = Flatten(typeDefinitions)
         /\ visitedDefinitions' = {}
         /\ phase' = "close"
         /\ UNCHANGED <<schema, error, allDefinitions,
                        typeDefinitions, processedFiles, stack, visits,
                        admitted, reads, expanded, output>>

\* index.ts 143-170: the seed, the merge, and the call of
\* completeDefinitionPool up to its loop.
MergeRoots ==
    /\ phase = "merge"
    /\ Merge(firstSetOf(heap, typeDefinitions),
             mergeFirstTypes(heap, firstSetOf(heap, typeDefinitions), 1))
    /\ UNCHANGED <<schemas, steps>>
    /\ UNCHANGED <<turns, returned, parseVars>>

\* The most turns of the loop of completeDefinitionPool that are followed.
MaxTurns == 40

\* The loop body without line 58: the name expanded is not marked visited.
CollectUnmarked(newDefinition, collected) ==
    /\ expanded' = Append(expanded, newDefinition)
    /\ IF ~collected.ok
       THEN /\ phase' = "failed"
            /\ error' = collected.error
            /\ UNCHANGED <<definitionPool, newTypeDefinitions>>
       ELSE /\ newTypeDefinitions' = Tail(newTypeDefinitions) \o collected.defs
            /\ definitionPool' = definitionPool \o collected.defs
            /\ UNCHANGED <<phase, error>>
    /\ UNCHANGED <<schema, schemas, heap, allDefinitions, typeDefinitions,
                   processedFiles, stack, visits, admitted, reads, seed, output,
                   visitedDefinitions>>

\* The loop body without line 56: what was collected is not added to the
\* pool.
CollectOutsidePool(newDefinition, collected) ==
    /\ expanded' = Append(expanded, newDefinition)
    /\ IF ~collected.ok
       THEN /\ phase' = "failed"
            /\ error' = collected.error
            /\ UNCHANGED <<definitionPool, newTypeDefinitions,
                           visitedDefinitions>>
       ELSE /\ newTypeDefinitions' = Tail(newTypeDefinitions) \o collected.defs
            /\ visitedDefinitions' =
                  visitedDefinitions \cup {heap[newDefinition].name}
            /\ UNCHANGED <<phase, error, definitionPool>>
    /\ UNCHANGED <<schema, schemas, heap, allDefinitions, typeDefinitions,
                   processedFiles, stack, visits, admitted, reads, seed, output>>

\* definition.ts 49-58 for newDefinition, collected being what
\* collectNewTypeDefinitions returned or threw.
Collect(newDefinition, collected) ==
    /\ expanded' = Append(expanded, newDefinition)
    /\ IF ~collected.ok
       THEN /\ phase' = "failed"
            /\ error' = collected.error
            /\ UNCHANGED <<definitionPool, newTypeDefinitions,
                           visitedDefinitions>>
       ELSE /\ newTypeDefinitions' = Tail(newTypeDefinitions) \o collected.defs
            /\ definitionPool' = definitionPool \o collected.defs
            /\ visitedDefinitions' =
                  visitedDefinitions \cup {heap[newDefinition].name}
            /\ UNCHANGED <<phase, error>>
    /\ UNCHANGED <<schema, schemas, heap, allDefinitions, typeDefinitions,
                   processedFiles, stack, visits, admitted, reads, seed, output>>

\* definition.ts 42-59: one turn of the while loop.
CloseStep ==
    /\ phase = "close"
    /\ newTypeDefinitions # <<>>
    /\ IF heap[Head(newTypeDefinitions)].name
             \in visitedDefinitions \cup ObjectPrototype
       THEN /\ newTypeDefinitions' = Tail(newTypeDefinitions)
            /\ UNCHANGED <<schema, schemas, phase, error, heap,
                           allDefinitions, typeDefinitions, processedFiles,
                           stack, visits, admitted, reads, definitionPool,
                           visitedDefinitions, expanded, seed, output>>
       ELSE Collect(Head(newTypeDefinitions),
                collectNewTypeDefinitions(
                    Context(heap, Flatten(allDefinitions), definitionPool),
                    Head(newTypeDefinitions)))
    /\ turns < MaxTurns
    /\ turns' = turns + 1
    /\ UNCHANGED steps
    /\ UNCHANGED <<returned, parseVars>>

\* definition.ts 61 and index.ts 166-173: the loop is over; the pool without
\* its repeated names becomes the document's definitions.
Finish ==
    /\ phase = "close"
    /\ newTypeDefinitions = <<>>
    /\ output' = uniqBy(heap, definitionPool)
    /\ phase' = "done"
    /\ UNCHANGED <<schema, schemas, error, heap, allDefinitions,
                   typeDefinitions, processedFiles, stack, visits, admitted, reads,
                   definitionPool, newTypeDefinitions, visitedDefinitions,
                   expanded, seed>>
    /\ UNCHANGED steps
    /\ UNCHANGED <<turns, returned, parseVars>>

\* The key that stands for a printed schema handed to importSchema as its
\* first argument: no file name, and no key of `schemas`.
Printed == <<"printed schema">>

\* index.ts 128-137 for a second call, importSchema(S) on the schema S the
\* first call returned: up to the loop of the root call of
\* collectDefinitions.  S is print(document) (index.ts 173); graphql's
\* parse builds new nodes with the kind, name, fields, arguments,
\* interfaces, member types and directives that were printed, and S has no
\* comment line, so no import line.  `schema` and `schemas` keep the first
\* call's arguments, which the second call never reads; visits, admitted,
\* reads and expanded go on from the first call's.
Reimport ==
    /\ phase = "done"
    /\ returned = <<>>
    /\ returned' = <<Snapshot(heap, output)>>
    /\ Enter(enterDocument(<< <<"*">> >>, <<>>, Value(Snapshot(heap, output)),
                           <<>>, <<>>, <<>>),
             Printed, << <<"*">> >>, <<>>, <<>>, [k \in {} |-> <<>>])
    /\ UNCHANGED <<schemas, steps, turns>>
    /\ UNCHANGED parseVars

-----------------------------------------------------------------------------
(* The initial state and the steps.                                        *)

\* No import line is handed to parseImportLine on its own.
Unwritten ==
    [names |-> <<>>, from |-> <<>>, afterImport |-> 0, beforeComma |-> 0,
     afterComma |-> 0, beforeFrom |-> 0, afterFrom |-> 0, open |-> "\"",
     close |-> "\"", semicolon |-> FALSE]

\* importSchema has not been called.
NotStarted ==
    /\ schema = <<"a">>
    /\ schemas = [k \in {} |-> <<>>]
    /\ phase = "start"
    /\ error = <<>>
    /\ heap = <<>>
    /\ allDefinitions = <<>>
    /\ typeDefinitions = <<>>
    /\ processedFiles = [k \in {} |-> <<>>]
    /\ stack = <<>>
    /\ steps = 0
    /\ turns = 0
    /\ visits = <<>>
    /\ admitted = <<>>
    /\ reads = <<>>
    /\ definitionPool = <<>>
    /\ newTypeDefinitions = <<>>
    /\ visitedDefinitions = {}
    /\ expanded = <<>>
    /\ seed = <<>>
    /\ output = <<>>
    /\ returned = <<>>

Init ==
    /\ NotStarted
    /\ written = Unwritten
    /\ line = <<>>
    /\ parsed = <<>>
    /\ sdlLines = <<>>
    /\ scanned = <<>>

Next ==
    \/ Start
    \/ FollowImport
    \/ Return
    \/ MergeRoots
    \/ CloseStep
    \/ Finish

Spec == Init /\ [][Next]_vars

\* importSchema, and importSchema again on what it returned.
RoundTripNext == Next \/ Reimport

RoundTripSpec == Init /\ [][RoundTripNext]_vars

\* collectDefinitions has an active call.
Collecting == phase = "collect" /\ stack # <<>> /\ steps < MaxSteps

\* A loop turn or a return of the innermost active call: FollowImport and
\* Return are the steps that count themselves in `steps`, and one of the
\* two is enabled whenever a call is active.
CollectorStep == Collecting /\ steps' = steps + 1

\* completeDefinitionPool is in its loop with definitions pending.
Closing == phase = "close" /\ newTypeDefinitions # <<>> /\ turns < MaxTurns

\* A turn of the loop of completeDefinitionPool: CloseStep is the step that
\* counts itself in `turns`, and it is enabled whenever definitions are
\* pending.
ClosureTurn == Closing /\ turns' = turns + 1

\* A call of collectDefinitions that has begun runs on, and so does the
\* loop of completeDefinitionPool: JavaScript runs the loop of every active
\* call, and the call itself, to the end.
FairSpec == Spec /\ WF_steps(CollectorStep) /\ WF_turns(ClosureTurn)

-----------------------------------------------------------------------------
(* What the output is made of.                                             *)

Returned == phase = "done"

\* The names of the definitions a list of references points to.
NamesOf(refs) == {heap[refs[k]].name : k \in DOMAIN refs}

\* The names of the definitions, in order.
NameSeq(defs) == [k \in DOMAIN defs |-> defs[k].name]

\* Every definition parsed from a visited source.
Visited == Flatten(allDefinitions)

\* The arguments of all the fields.
ArgumentsOf(fields) == Flatten([k \in DOMAIN fields |-> fields[k].arguments])

NodeTypes(nodes) == {getNamedType(nodes[k].type).name : k \in DOMAIN nodes}
NodeDirectives(nodes) == UNION {Range(nodes[k].directives) : k \in DOMAIN nodes}

\* The type names d references: the types of its fields, of its fields'
\* arguments, of a directive definition's arguments, its interfaces, its
\* union members.
TypeReferences(d) ==
    NodeTypes(d.fields) \cup NodeTypes(ArgumentsOf(d.fields))
        \cup NodeTypes(d.arguments) \cup Range(d.interfaces) \cup Range(d.types)

\* The directives applied in d: to d, to its fields, to their arguments.
DirectiveReferences(d) ==
    Range(d.directives) \cup NodeDirectives(d.fields)
        \cup NodeDirectives(ArgumentsOf(d.fields)) \cup NodeDirectives(d.arguments)

\* C1: when importSchema returns, every name an output definition
\* references (field types, argument types, directive definition argument
\* types, interfaces, union members, applied directives) is built in or is
\* the name of an output definition.
Closure ==
    Returned =>
        \A k \in DOMAIN output :
            /\ TypeReferences(heap[output[k]]) \subseteq
                   builtinTypes \cup NamesOf(output)
            /\ DirectiveReferences(heap[output[k]]) \subseteq
                   builtinDirectives \cup NamesOf(output)

\* C2: no two definitions of the output have the same name.
NameUniqueness ==
    Returned =>
        \A i, j \in DOMAIN output :
            i # j => heap[output[i]].name # heap[output[j]].name

\* importSchema returned and the pool held one name twice.
ReturnedFromDuplicates ==
    /\ Returned
    /\ \E i, j \in DOMAIN definitionPool :
          i < j /\ heap[definitionPool[i]].name = heap[definitionPool[j]].name

\* C3: when the output holds an interface I, every object of a visited
\* source that implements I is (by its name) in the output.
InterfaceCompleteness ==
    Returned =>
        \A k \in DOMAIN output :
            heap[output[k]].kind = "InterfaceTypeDefinition" =>
                \A i \in DOMAIN Visited :
                    /\ heap[Visited[i]].kind = "ObjectTypeDefinition"
                    /\ heap[output[k]].name \in Range(heap[Visited[i]].interfaces)
                    => heap[Visited[i]].name \in NamesOf(output)

\* The definitions named n that the traversal admitted, as they were when
\* filterImportedDefinitions returned them, in visit order.
AdmittedNamed(n) == SelectSeq(Flatten(admitted), LAMBDA d : d.name = n)

\* Their field lists, concatenated.
AdmittedFields(n) ==
    Flatten([k \in DOMAIN AdmittedNamed(n) |-> AdmittedNamed(n)[k].fields])

\* C4 as stated: an output definition named Query, Mutation or Subscription
\* has as its fields the concatenation, in visit order, of the fields of
\* the admitted definitions of that name.
RootMerge ==
    Returned =>
        \A k \in DOMAIN output :
            heap[output[k]].name \in rootFields =>
                heap[output[k]].fields = AdmittedFields(heap[output[k]].name)

\* C4 amended: that holds of an output root type of whose name the
\* traversal admitted a definition (a root type in the output only because
\* an output definition references it keeps its own fields).
RootMergeOfAdmitted ==
    Returned =>
        \A k \in DOMAIN output :
            /\ heap[output[k]].name \in rootFields
            /\ AdmittedNamed(heap[output[k]].name) # <<>>
            => heap[output[k]].fields = AdmittedFields(heap[output[k]].name)

\* importSchema returned a Query merged from three admitted definitions.
ReturnedMergedQuery ==
    /\ Returned
    /\ "Query" \in NamesOf(output)
    /\ Len(AdmittedNamed("Query")) = 3

\* The (source, directive) pair a recursive visit was made for: the key of
\* the importing source, the names imported and the source imported from.
PairOf(v) == <<v.by, v.imports, v.key>>

\* No (source, directive) pair is visited twice.
NoPairTwice ==
    \A i, j \in 2..Len(visits) : i # j => PairOf(visits[i]) # PairOf(visits[j])

\* collectDefinitions is over: it returned to importSchema or threw.
CollectionOver == phase \notin {"start", "collect"}

\* C5: whatever graph the import directives form, collectDefinitions makes
\* at most one recursive visit per (source, directive) pair and comes to an
\* end.
CollectionTerminates ==
    []NoPairTwice /\ (phase = "collect" ~> CollectionOver)

\* collectDefinitions returned to importSchema after a descendant of the
\* root source imported the root source again.
ReturnedFromCycle ==
    /\ phase = "merge"
    /\ \E i \in 2..Len(visits) : visits[i].key = schema

\* Interface I and the objects that implement it, for the references
\* that pull a definition into the pool.
Implementations(d) ==
    IF d.kind = "InterfaceTypeDefinition"
    THEN {heap[Visited[i]].name : i \in
            {j \in DOMAIN Visited :
                /\ heap[Visited[j]].kind = "ObjectTypeDefinition"
                /\ d.name \in Range(heap[Visited[j]].interfaces)}}
    ELSE {}

\* The names one reference away from d.
Referenced(d) ==
    TypeReferences(d) \cup DirectiveReferences(d) \cup Implementations(d)

\* The names at most n references away from the names N, through the
\* definitions of the visited sources.
RECURSIVE Reach(_, _)
Reach(N, n) ==
    IF n = 0 THEN N
    ELSE Reach(N \cup UNION {Referenced(heap[Visited[i]]) : i \in
                    {j \in DOMAIN Visited : heap[Visited[j]].name \in N}},
               n - 1)

\* The names the output definitions other than the k-th reference.
ReferencedByOthers(k) ==
    UNION {Referenced(heap[output[j]]) : j \in DOMAIN output \ {k}}

\* C6: every output definition is a seed definition or is reachable by a
\* chain of references from another definition of the output.
NoLeak ==
    Returned =>
        \A k \in DOMAIN output :
            \/ output[k] \in Range(seed)
            \/ heap[output[k]].name \in Reach(ReferencedByOthers(k), Len(heap))

\* The messages claimed for the fields of d (and, for an object, their
\* arguments) whose type is neither built in nor defined in a visited
\* source: each names the owning field.
OwningFieldMessages(d) ==
    {FieldMessage(d.fields[k].name, getNamedType(d.fields[k].type).name) :
        k \in {j \in DOMAIN d.fields :
                 getNamedType(d.fields[j].type).name
                     \notin builtinTypes \cup NamesOf(Visited)}}
    \cup
    (IF d.kind = "ObjectTypeDefinition"
     THEN UNION {{FieldMessage(d.fields[k].name, t) :
                    t \in NodeTypes(d.fields[k].arguments)
                             \ (builtinTypes \cup NamesOf(Visited))} :
                 k \in DOMAIN d.fields}
     ELSE {})

\* The messages claimed for the interfaces, union members and applied
\* directives of d that no visited source defines.
MissingReferenceMessages(d) ==
    {InterfaceMessage(i) : i \in Range(d.interfaces) \ NamesOf(Visited)}
    \cup {TypeMessage(t) : t \in Range(d.types) \ NamesOf(Visited)}
    \cup {DirectiveMessage(x) :
             x \in DirectiveReferences(d)
                      \ (builtinDirectives \cup NamesOf(Visited))}

\* C7: expanding an object, interface or input object with a field (or, for
\* an object, a field argument) of a type that is neither built in nor
\* defined in a visited source fails, with the message `Field <f>: Couldn't
\* find type <T> in any of the schemas.` naming the owning field f (or with
\* the message of another missing reference of the same definition).
MissingFieldTypeMessage ==
    \A k \in DOMAIN expanded :
        /\ HasFields(heap[expanded[k]].kind)
        /\ OwningFieldMessages(heap[expanded[k]]) # {}
        => /\ phase = "failed"
           /\ error \in OwningFieldMessages(heap[expanded[k]])
                          \cup MissingReferenceMessages(heap[expanded[k]])

\* C8: expanding a definition that names an interface, a union member or
\* an applied directive that is neither built in nor defined in a visited
\* source fails, with the message for that interface, type or directive
\* (or with the message of a missing field type of the same definition).
MissingReferenceFails ==
    \A k \in DOMAIN expanded :
        MissingReferenceMessages(heap[expanded[k]]) # {}
        => /\ phase = "failed"
           /\ error \in MissingReferenceMessages(heap[expanded[k]])
                          \cup OwningFieldMessages(heap[expanded[k]])

\* The field names an import list gives after `n.`.
Listed(imports, n) ==
    {Split(imports[k], ".")[2] :
        k \in {j \in DOMAIN imports :
                 /\ Len(Split(imports[j], ".")) > 1
                 /\ Split(imports[j], ".")[1] = <<n>>}}

\* The definitions of the source `key` as its text has them.
Written(key) == parseDefinitions(read(key, schemas).value)

\* The fields of the source's definition named n, as written.
OriginalFields(key, n) ==
    Written(key)[Min({k \in DOMAIN Written(key) : Written(key)[k].name = n})].fields

\* The fields among `fields` that the names `listed` select.
Selected(fields, listed) ==
    SelectSeq(fields, LAMBDA f : <<f.name>> \in listed \/ <<"*">> \in listed)

\* The j-th definition admitted by visit i is the only place the field f of
\* its name can come from.
OnlyFrom(i, j, f) ==
    \A v \in DOMAIN admitted : \A k \in DOMAIN admitted[v] :
        /\ <<v, k>> # <<i, j>>
        /\ admitted[v][k].name = admitted[i][j].name
        => f \notin Range(admitted[v][k].fields)

\* C9: a definition T admitted through an import list with dotted names
\* `T.f` keeps exactly the fields listed after `T.`, in their original
\* order, or all its fields when `T.*` is listed; its other fields do not
\* reach the output through this import.
FieldSelectors ==
    \A i \in DOMAIN admitted : \A j \in DOMAIN admitted[i] :
        Listed(visits[i].imports, admitted[i][j].name) # {} =>
            /\ admitted[i][j].fields =
                  Selected(OriginalFields(visits[i].key, admitted[i][j].name),
                           Listed(visits[i].imports, admitted[i][j].name))
            /\ Returned /\ typeDefinitions[i][j] \in Range(output) =>
                  \A f \in Range(heap[typeDefinitions[i][j]].fields) :
                      OnlyFrom(i, j, f) =>
                          f \in Range(Selected(
                              OriginalFields(visits[i].key, admitted[i][j].name),
                              Listed(visits[i].imports, admitted[i][j].name)))

\* importSchema returned after a dotted import dropped a field of the
\* definition it admitted.
ReturnedWithSelectedFields ==
    /\ Returned
    /\ \E i \in DOMAIN admitted : \E j \in DOMAIN admitted[i] :
          /\ Listed(visits[i].imports, admitted[i][j].name) # {}
          /\ Len(admitted[i][j].fields) <
                Len(OriginalFields(visits[i].key, admitted[i][j].name))
          /\ typeDefinitions[i][j] \in Range(output)

-----------------------------------------------------------------------------
(* The work list of the closure engine.                                    *)

\* No name was passed to collectNewTypeDefinitions twice.
NoNameExpandedTwice ==
    \A i, j \in DOMAIN expanded :
        i < j => heap[expanded[i]].name # heap[expanded[j]].name

\* The loop of completeDefinitionPool is over: nothing is pending, or
\* collectNewTypeDefinitions threw.
ClosureOver == phase \in {"done", "failed"} \/ newTypeDefinitions = <<>>

\* C16 as stated: the work list loop of completeDefinitionPool reaches an
\* empty pending list, and no definition name is expanded twice.
ClosureEmptiesPending ==
    []NoNameExpandedTwice /\ (phase = "close" ~> newTypeDefinitions = <<>>)

\* C16 amended: the work list loop of completeDefinitionPool comes to its
\* end, with nothing left pending or with an error thrown by an expansion,
\* and no definition name is expanded twice.
ClosureTerminates ==
    []NoNameExpandedTwice /\ (phase = "close" ~> ClosureOver)

\* importSchema returned after the closure engine expanded two definitions
\* that reference each other and met a name again that it had expanded.
ReturnedFromReferenceCycle ==
    /\ Returned
    /\ \E i, j \in DOMAIN expanded :
          /\ i # j
          /\ heap[expanded[j]].name \in TypeReferences(heap[expanded[i]])
          /\ heap[expanded[i]].name \in TypeReferences(heap[expanded[j]])
    /\ turns > Len(expanded)

-----------------------------------------------------------------------------
(* Reading and resolving the sources.                                      *)

\* C19: in one call of importSchema no source, identified by its key, is
\* read twice.
SingleRead ==
    \A i, j \in DOMAIN reads : i < j => keyOf(reads[i]) # keyOf(reads[j])

\* The directive the i-th visit was made for: the sources' directives are
\* recorded in processedFiles as they are followed (index.ts 286).
DirectiveOf(i) ==
    processedFiles[visits[i].by][
        Cardinality({j \in 2..i : visits[j].by = visits[i].by})]

\* C20: when the key of the importing source or the `from` of the directive
\* does not end in `.graphql`, the key of the target is `from` as written,
\* and its text is not read from the file system (read goes to the file
\* system for the names that end in `.graphql`, index.ts 71-72).
LogicalResolution ==
    \A i \in 2..Len(visits) :
        ~isFile(visits[i].by) \/ ~isFile(DirectiveOf(i).from) =>
            /\ visits[i].key = DirectiveOf(i).from
            /\ ~isFile(reads[i])

-----------------------------------------------------------------------------
(* The wildcard import.                                                    *)

\* The names, root types apart, of the definitions declared in the sources
\* visited before the i-th visit.
SeenBefore(i) ==
    UNION {{d.name : d \in Range(Written(visits[j].key))} : j \in 1..(i - 1)}
        \ rootFields

\* The object definitions of the source of the i-th visit whose names were
\* seen before.
ObjectsSeenBefore(i) ==
    SelectSeq(Written(visits[i].key),
              LAMBDA d : d.kind = "ObjectTypeDefinition" /\ d.name \in SeenBefore(i))

\* The admissible definitions of the source of the i-th visit.
Admissible(i) ==
    SelectSeq(Written(visits[i].key), LAMBDA d : d.kind \in validKinds)

\* C17: a source other than the first visited one, entered with the import
\* list ['*'], admits exactly its object definitions whose name is the
\* name of a definition, no root type, of a source visited before; the
\* first source, entered with ['*'], admits all its admissible definitions.
WildcardFilter ==
    \A i \in DOMAIN admitted :
        visits[i].imports = << <<"*">> >> =>
            admitted[i] = IF visits[i].key # visits[1].key
                          THEN ObjectsSeenBefore(i)
                          ELSE Admissible(i)

-----------------------------------------------------------------------------
(* The re-entry guard.                                                     *)

\* The import directives the text of the source `key` states.
DirectivesOf(key) == parseSDL(read(key, schemas).value).modules

\* The recursive visits made for the directive m of the source `key`: the
\* visits from `key`, with m's names, of the source m.from resolves to.
VisitsFor(key, m) ==
    {i \in 2..Len(visits) :
        PairOf(visits[i]) =
            <<key, m.imports, keyOf(resolveModuleFilePath(key, m.from).value)>>}

\* The admissible definitions of the source of the i-th visit that its
\* import list names.
NamedByImports(i) ==
    SelectSeq(Admissible(i), LAMBDA d :
        \E k \in DOMAIN visits[i].imports :
            ImportHead(visits[i].imports[k]) = <<d.name>>)

\* Each of the directives ms of the source `key` was followed at most once,
\* and once when collectDefinitions has returned.
FollowedOnce(key, ms) ==
    \A k \in DOMAIN ms :
        /\ Cardinality(VisitsFor(key, ms[k])) <= 1
        /\ phase \in {"merge", "close", "done"} => VisitsFor(key, ms[k]) # {}

\* C18: for each (importing source, directive) pair the collector recurses
\* into the target at most once, so a directive equal to one followed from
\* the same source is skipped; when collectDefinitions has returned, each
\* directive of each visited source was followed once, directives that
\* differ in their names or their target each by a visit of its own, which
\* admitted the definitions its own import list names.
ReentryGuard ==
    /\ \A key \in {visits[i].key : i \in DOMAIN visits} :
          FollowedOnce(key, DirectivesOf(key))
    /\ \A i \in 2..Len(visits) :
          <<"*">> \notin Range(visits[i].imports) =>
              NameSeq(admitted[i]) = NameSeq(NamedByImports(i))

\* collectDefinitions returned after it followed two directives of one
\* source that name the same target with different import lists, and
\* skipped the directives of a source it visited a second time.
ReturnedFromRepeatedDirectives ==
    /\ phase = "merge"
    /\ \E i, j \in 2..Len(visits) :
          /\ i < j
          /\ visits[i].by = visits[j].by
          /\ visits[i].key = visits[j].key
          /\ visits[i].imports # visits[j].imports
          /\ DirectivesOf(visits[i].key) # <<>>
          /\ NameSeq(admitted[i]) # NameSeq(admitted[j])

-----------------------------------------------------------------------------
(* The order of the output.                                                *)

\* s without the later occurrences of what occurred before.
RECURSIVE FirstOccurrences(_)
FirstOccurrences(s) ==
    IF s = <<>> THEN <<>>
    ELSE LET front == SubSeq(s, 1, Len(s) - 1)
         IN  FirstOccurrences(front)
             \o (IF s[Len(s)] \in Range(front) THEN <<>> ELSE <<s[Len(s)]>>)

\* The root operation types admitted, in the order of the visits.
RootTypesDiscovered ==
    SelectSeq(Flatten(admitted), LAMBDA d : d.name \in rootFields)

\* The root source's definitions that are no root types, in the order of
\* its text.
RootFileOthers ==
    SelectSeq(Written(visits[1].key),
              LAMBDA d : d.kind \in validKinds /\ d.name \notin rootFields)

\* What the closure engine appended to the pool it was handed, in order.
PulledIn ==
    Snapshot(heap, SubSeq(definitionPool, Len(seed) + 1, Len(definitionPool)))

-----------------------------------------------------------------------------
(* importSchema on its own output.                                         *)

\* The names of the definitions, each with its fields.
NamedFields(defs) == {<<defs[k].name, defs[k].fields>> : k \in DOMAIN defs}

\* A second call, on the schema the first returned, is over.
ReimportOver == returned # <<>> /\ phase \in {"done", "failed"}

\* C14: importSchema on a schema S that importSchema returned, alone as
\* the root source, returns, and returns the definitions of S (the same
\* names with the same fields).
RoundTrip ==
    ReimportOver =>
        /\ phase = "done"
        /\ NamedFields(Snapshot(heap, output)) = NamedFields(returned[1])

-----------------------------------------------------------------------------
(* parseImportLine called on its own (index.test.ts 4-38).                 *)

\* The most names one import line lists, and the most spaces in one gap.
MaxNames == 2
MaxSpaces == 2

ParseNames == {<<"A">>, <<"B">>}
ParsePaths == {<<"schema", ".graphql">>, <<"..", "/", "new", "/", "schema", ".graphql">>, <<>>}

Spaces(n) == [k \in 1..n |-> " "]

\* The sequences over S of length 1 to n.
NonEmptySeqs(S, n) == SeqsUpTo(S, n) \ {<<>>}

\* The ways a line is written: the names (none, some, or the wildcard), the
\* path, its quotes, the spaces after `import`, around each comma, before
\* and after `from`, and whether a semicolon ends it.
Writings ==
    [names : SeqsUpTo(ParseNames, MaxNames) \cup {<< <<"*">> >>},
     from : ParsePaths,
     afterImport : 1..MaxSpaces,
     beforeComma : 0..MaxSpaces,
     afterComma : 0..MaxSpaces,
     beforeFrom : 0..MaxSpaces,
     afterFrom : 1..MaxSpaces,
     open : Quotes,
     close : Quotes,
     semicolon : BOOLEAN]

\* names joined by a comma with the spaces around it
RECURSIVE JoinWith(_, _)
JoinWith(names, comma) ==
    IF Len(names) = 0 THEN <<>>
    ELSE IF Len(names) = 1 THEN names[1]
    ELSE names[1] \o comma \o JoinWith(Tail(names), comma)

\* The text of the line written as w.
Render(w) ==
    <<"import">> \o Spaces(w.afterImport)
    \o JoinWith(w.names, Spaces(w.beforeComma) \o <<",">> \o Spaces(w.afterComma))
    \o Spaces(w.beforeFrom) \o <<"from">> \o Spaces(w.afterFrom)
    \o <<w.open>> \o w.from \o <<w.close>>
    \o (IF w.semicolon THEN <<";">> ELSE <<>>)

ParseInit ==
    /\ written \in Writings
    /\ line = Render(written)
    /\ parsed = <<>>
    /\ sdlLines = <<>>
    /\ scanned = <<>>
    /\ NotStarted

\* index.ts 85-101: the call parseImportLine(line).
ParseLine ==
    /\ parsed = <<>>
    /\ parsed' = <<parseImportLine(line)>>
    /\ UNCHANGED <<written, line, sdlLines, scanned>>
    /\ UNCHANGED importVars

ParseNext == ParseLine

ParseSpec == ParseInit /\ [][ParseNext]_vars

-----------------------------------------------------------------------------
(* The import line parser.                                                 *)

\* The line has the form `import N1, ..., Nk from "P"` or
\* `import * from "P"` with P not empty, whatever its spacing.
WrittenAsImport ==
    /\ written.names # <<>>
    /\ written.beforeFrom >= 1
    /\ written.open = "\""
    /\ written.close = "\""
    /\ ~written.semicolon
    /\ written.from # <<>>

\* {imports: [N1..Nk], from: P} for the names and the path written.
ExpectedImport ==
    [ok |-> TRUE, imports |-> written.names, from |-> written.from]

NotTheForm == written.names # <<>> /\ written.beforeFrom = 0

\* C11: parseImportLine throws on a line that is not of the import form, on
\* a line whose quoted source is empty and on a line without the wildcard
\* whose name list is empty; a record it returns has a name, no empty name
\* and a source that is not empty.
ParseRejects ==
    parsed # <<>> =>
        /\ NotTheForm \/ written.from = <<>> \/ written.names = <<>>
                => ~parsed[1].ok
        /\ parsed[1].ok =>
                /\ parsed[1].imports # <<>>
                /\ \A i \in DOMAIN parsed[1].imports : parsed[1].imports[i] # <<>>
                /\ parsed[1].from # <<>>

\* C12: parseImportLine throws on a line whose path opens with one quote
\* character and closes with the other.
QuotesPair ==
    parsed # <<>> /\ written.open # written.close => ~parsed[1].ok

-----------------------------------------------------------------------------
(* parseSDL called on its own (index.test.ts 40-55).                       *)

\* The most lines of a text.
MaxLines == 3

\* A record {imports, from}.
RawModule(imports, from) == [imports |-> imports, from |-> from]

\* The lines a text is written with: the text of the line, whether it is
\* an import line (begins, white space apart, with `# import ` or
\* `#import `), and the directive it states (none when it states none).
SDLLine(l, isImport, modules) ==
    [text |-> l, isImport |-> isImport, modules |-> modules]

SDLLines ==
    { SDLLine(<<"#", " ", "import", " ", "A", " ", "from", " ", "\"", "b", "\"">>,
              TRUE, <<RawModule(<< <<"A">> >>, <<"b">>)>>),
      SDLLine(<<"#", "import", " ", "*", " ", "from", " ", "'", "c", "'">>,
              TRUE, <<RawModule(<< <<"*">> >>, <<"c">>)>>),
      SDLLine(<<" ", " ", "#", " ", "import", " ", "A", ",", " ", "B", " ",
                "from", " ", "\"", "b", "\"", ";", " ">>,
              TRUE, <<RawModule(<< <<"A">>, <<"B">> >>, <<"b">>)>>),
      SDLLine(<<"#", " ", "import", " ", "A">>, TRUE, <<>>),
      SDLLine(<<"#", " ", "test", " ", "1">>, FALSE, <<>>),
      SDLLine(<<"#", "import", "A", " ", "from", " ", "\"", "b", "\"">>,
              FALSE, <<>>),
      SDLLine(<<"import", " ", "A", " ", "from", " ", "\"", "b", "\"">>,
              FALSE, <<>>),
      SDLLine(<<>>, FALSE, <<>>),
      SDLLine(<<" ", "type C { id: ID! }">>, FALSE, <<>>) }

\* The text the lines make: sdl.split('\n') of it.
TextOf(ls) == [i \in DOMAIN ls |-> ls[i].text]

ScanInit ==
    /\ sdlLines \in SeqsUpTo(SDLLines, MaxLines)
    /\ scanned = <<>>
    /\ written = Unwritten
    /\ line = <<>>
    /\ parsed = <<>>
    /\ NotStarted

\* index.ts 109-116: the call parseSDL(sdl).
ParseSDL ==
    /\ scanned = <<>>
    /\ scanned' = <<parseSDL(TextOf(sdlLines))>>
    /\ UNCHANGED <<written, line, parsed, sdlLines>>
    /\ UNCHANGED importVars

ScanNext == ParseSDL

ScanSpec == ScanInit /\ [][ScanNext]_vars

-----------------------------------------------------------------------------
(* The import scanner.                                                     *)

\* The import lines among ls.
ImportLinesOf(ls) == SelectSeq(ls, LAMBDA l : l.isImport)

\* The directives the import lines of ls state, in line order.
StatedModules(ls) ==
    Flatten([i \in DOMAIN ImportLinesOf(ls) |-> ImportLinesOf(ls)[i].modules])

\* Every import line of ls states a directive.
WellFormed(ls) == \A i \in DOMAIN ls : ls[i].isImport => ls[i].modules # <<>>

\* C13: parseSDL returns one record for each line that, white space apart,
\* begins with `# import ` or `#import `, in line order (it returns when
\* each of them states a directive); the other lines contribute nothing and
\* do not change the result.
ScanImportLines ==
    scanned # <<>> =>
        /\ scanned[1].ok <=> WellFormed(sdlLines)
        /\ scanned[1].ok => scanned[1].modules = StatedModules(sdlLines)
        /\ scanned[1] = parseSDL(TextOf(ImportLinesOf(sdlLines)))

\* A text of three lines was scanned: two import lines, one in each
\* spelling, and between them a line that is no import line.
ScannedAroundOtherLine ==
    /\ scanned # <<>>
    /\ scanned[1].ok
    /\ Len(sdlLines) = 3
    /\ sdlLines[1].isImport
    /\ ~sdlLines[2].isImport
    /\ sdlLines[3].isImport
    /\ sdlLines[1].text # sdlLines[3].text
    /\ Len(scanned[1].modules) = 2

-----------------------------------------------------------------------------
(* Sources without definitions.                                            *)

\* The text has no line other than blank lines and comment lines: on each
\* line, the first thing that is no white space is a `#`.
OnlyBlanksAndComments(text) ==
    \A i \in DOMAIN text : \A k \in DOMAIN text[i] :
        text[i][k] # " " =>
            \E j \in 1..k :
                /\ text[i][j] = "#"
                /\ \A n \in 1..(j - 1) : text[i][n] = " "

\* What read() returns for the source `key` is such a text.
EmptySourceText(r) == r.ok /\ r.defined /\ OnlyBlanksAndComments(r.value)

EmptySource(key) == EmptySourceText(read(key, schemas))

\* The key of the source the innermost active call is about to enter.
Entering ==
    keyOf(resolveModuleFilePath(stack[Len(stack)].filePath,
              stack[Len(stack)].rawModules[stack[Len(stack)].next].from).value)

\* C21: a visited source, the root included, whose text has no line other
\* than blank lines and comment lines (the zero-length text included)
\* contributes empty definition lists, its import directives are followed,
\* and importSchema does not fail entering it.
EmptySourcesLegal ==
    /\ phase = "failed" /\ visits = <<>> => ~EmptySource(schema)
    /\ phase = "failed" /\ stack # <<>> => ~EmptySource(Entering)
    /\ \A i \in DOMAIN visits :
          EmptySource(visits[i].key) =>
              /\ allDefinitions[i] = <<>>
              /\ typeDefinitions[i] = <<>>
              /\ phase \in {"merge", "close", "done"} =>
                    \A k \in DOMAIN DirectivesOf(visits[i].key) :
                        VisitsFor(visits[i].key,
                                  DirectivesOf(visits[i].key)[k]) # {}

-----------------------------------------------------------------------------
(* The names the root source imports.                                      *)

\* The admissible definitions of the source that the directive m of the
\* source `key` names, which m imports by their bare names.
ImportedBy(key, m) ==
    {d \in Range(Written(keyOf(resolveModuleFilePath(key, m.from).value))) :
        d.kind \in validKinds /\ <<d.name>> \in Range(m.imports)}

\* The names N of the directives `import N from "x"` of the root source
\* for which x declares an admissible definition named N.
ImportedByRoot ==
    UNION {{d.name : d \in ImportedBy(schema, m)} :
              m \in Range(DirectivesOf(schema))}

\* C22 as stated: when importSchema returns, the output has a definition
\* of every name N that a directive `import N from "x"` of the root source
\* imports from a source x that declares N, whether or not a definition
\* references N.
ImportedNamesSurvive ==
    Returned => ImportedByRoot \subseteq NamesOf(output)

\* The type names the closure engine looks up when it expands d: the types
\* of its fields, of the arguments of an object's fields, the interfaces
\* of an object, the members of a union.
FollowedTypes(d) ==
    NodeTypes(d.fields) \cup Range(d.types)
        \cup (IF d.kind = "ObjectTypeDefinition"
              THEN NodeTypes(ArgumentsOf(d.fields)) \cup Range(d.interfaces)
              ELSE {})

\* The closure engine expanded a definition that references the type n.
MetByClosure(n) ==
    /\ n \notin builtinTypes
    /\ \E k \in DOMAIN expanded : n \in FollowedTypes(heap[expanded[k]])

\* C22 amended: when importSchema returns, the output has a definition of
\* such a name N when N is Query, Mutation or Subscription, or when N is no
\* built-in type and a definition the closure engine expanded references
\* the type N.
ImportedNamesSurviveReferenced ==
    Returned =>
        \A n \in ImportedByRoot :
            n \in rootFields \/ MetByClosure(n) => n \in NamesOf(output)

\* importSchema returned a definition that the root source imports by name
\* and does not define, after the closure engine met a reference to it.
ReturnedImportedName ==
    /\ Returned
    /\ \E n \in ImportedByRoot :
          /\ MetByClosure(n)
          /\ n \notin rootFields
          /\ n \notin {d.name : d \in Range(Written(schema))}
          /\ n \in NamesOf(output)

-----------------------------------------------------------------------------
(* The fields of the merged root operation types.                          *)

\* No two of the fields have the same name.
DistinctFieldNames(fields) ==
    \A i, j \in DOMAIN fields : i # j => fields[i].name # fields[j].name

\* Every Query, Mutation and Subscription definition of every source, in
\* memory or on disk, has pairwise distinct field names.
RootTypesWellFormed ==
    \A key \in DOMAIN schemas \cup DOMAIN FileSystem :
        \A d \in Range(Written(key)) :
            d.name \in rootFields => DistinctFieldNames(d.fields)

\* C23: when every Query, Mutation and Subscription definition of every
\* source has pairwise distinct field names, a root operation type of the
\* output has pairwise distinct field names, whatever the import graph.
NoDuplicateRootFields ==
    Returned /\ RootTypesWellFormed =>
        \A k \in DOMAIN output :
            heap[output[k]].name \in rootFields =>
                DistinctFieldNames(heap[output[k]].fields)

-----------------------------------------------------------------------------
(* Import lists that name what the source does not declare.                *)

\* The import line the innermost active call is at.
Following == stack[Len(stack)].rawModules[stack[Len(stack)].next]

\* The names before the dot of the dotted names of an import list.
DottedHeads(imports) ==
    {Split(imports[k], ".")[1] :
        k \in {j \in DOMAIN imports : Len(Split(imports[j], ".")) > 1}}

\* The names of the definitions the source `key` declares, as strings.
DeclaredIn(key) == {<<d.name>> : d \in Range(Written(key))}

\* collectDefinitions threw on entering a source whose text was read and
\* parsed, for an import line without the wildcard with a dotted name whose
\* head the source does not declare: the error is that of the filter.
FilterRaisedOnAbsent ==
    /\ phase = "failed"
    /\ stack # <<>>
    /\ error = TypeErrorMessage
    /\ read(Entering, schemas).defined
    /\ <<"*">> \notin Range(Following.imports)
    /\ DottedHeads(Following.imports) \ DeclaredIn(Entering) # {}

\* C24: for an import list without the wildcard, filterImportedDefinitions
\* returns the admissible definitions of the source whose names are the
\* head of some import, and raises no error for a bare name `N` or a
\* dotted name `N.f` whose head the source does not declare.
FilterTotalOnAbsent ==
    /\ ~FilterRaisedOnAbsent
    /\ \A i \in 2..Len(visits) :
          <<"*">> \notin Range(visits[i].imports) =>
              NameSeq(admitted[i]) = NameSeq(NamedByImports(i))

=============================================================================
